---- MODULE Spec2Model ----
(***************************************************************************)
(* A model of two parts of iced's core crate:                              *)
(*                                                                         *)
(*   core/src/text/paragraph.rs       the Paragraph backend contract and   *)
(*                                    the caching wrapper Plain<P>         *)
(*   core/src/window/redraw_request.rs  the ordered RedrawRequest value    *)
(*                                                                         *)
(* Plain<P> is generic over a backend P: Paragraph.  The trait only        *)
(* declares with_text, resize, compare and min_bounds; their bodies live   *)
(* in a backend crate.  They are modelled here from the contract of the    *)
(* specification (section 4.1); Plain::new and Plain::update are modelled  *)
(* from their code.                                                        *)
(***************************************************************************)
EXTENDS Integers, Sequences, FiniteSets, TLC

VARIABLES
    raw,         \* Plain.raw: the owned backend paragraph
    content,     \* Plain.content: the owned copy of the text
    text,        \* the request of the last new/update call (<<>> before any)
    calls,       \* the backend operations the last call invoked, in order
    difference,  \* what compare returned in the last call, if it was invoked
    op,          \* the last Plain operation: "default", "new" or "update"
    before,      \* the wrapper as the last update found it (<<>> before any)
    previous,    \* op, text, calls and difference of the operation before
    scenario,    \* how many steps of the Hello/World scenario have just run
    returned,    \* the last accessor call since the last update (<<>> if none)
    pending,     \* the redraw requests signalled since the last reset
    merged,      \* the merged minimum of pending (<<>> when not computed)
    lhs,         \* left operand of the last RedrawRequest comparison
    rhs,         \* right operand of the last RedrawRequest comparison
    ordering,    \* Ord::cmp of lhs and rhs ("NotCompared" before any)
    equal        \* PartialEq::eq of lhs and rhs

plainVars ==
    <<raw, content, text, calls, difference, op, before, previous, scenario,
      returned>>
redrawVars == <<pending, merged, lhs, rhs, ordering, equal>>
vars == <<raw, content, text, calls, difference, op, before, previous,
          scenario, returned,
          pending, merged, lhs, rhs, ordering, equal>>

----------------------------------------------------------------------------
(* Bounds of the model. *)

\* bounds range over the boxes 0x0, 100x20, ..., (100*MaxBounds)x20
MaxBounds == 2
\* instants are 0..MaxInstant (ticks of the monotonic clock)
MaxInstant == 3
\* at most MaxPending redraw requests are pending at once
MaxPending == 3

----------------------------------------------------------------------------
(* The Text request: Text<Content, Font>. *)

Size(w, h) == [width |-> w, height |-> h]

SizeZERO == Size(0, 0)

Contents == {"", "Hello", "World"}

BoundsSet == {Size(100 * k, IF k = 0 THEN 0 ELSE 20) : k \in 0..MaxBounds}

Pixels == {16, 20}

LineHeights == {1, 2}

Fonts == {"Default", "Monospace"}

Horizontal == {"Left", "Center"}

Vertical == {"Top", "Center"}

Shapings == {"Basic", "Advanced"}

\* the styling fields of a Text
Styling ==
    [size : Pixels, line_height : LineHeights, font : Fonts,
     horizontal_alignment : Horizontal, vertical_alignment : Vertical,
     shaping : Shapings]

BaseStyling ==
    [size |-> 16, line_height |-> 1, font |-> "Default",
     horizontal_alignment |-> "Left", vertical_alignment |-> "Top",
     shaping |-> "Basic"]

\* the styling fields in which two stylings differ
Changed(s1, s2) == {f \in DOMAIN s1 : s1[f] # s2[f]}

\* the stylings the requests carry: the base styling, each styling that
\* differs from it in one field, and the one that differs in every field
Stylings ==
    {s \in Styling :
        Cardinality(Changed(s, BaseStyling)) \in {0, 1, Cardinality(DOMAIN BaseStyling)}}

\* Text<&str, Font>: the request handed to Plain::new and Plain::update
Text ==
    {[content |-> c, bounds |-> b, size |-> s.size,
      line_height |-> s.line_height, font |-> s.font,
      horizontal_alignment |-> s.horizontal_alignment,
      vertical_alignment |-> s.vertical_alignment, shaping |-> s.shaping] :
        c \in Contents, b \in BoundsSet, s \in Stylings}

\* the styling fields of a paragraph or of a request
StylingOf(x) ==
    [size |-> x.size, line_height |-> x.line_height, font |-> x.font,
     horizontal_alignment |-> x.horizontal_alignment,
     vertical_alignment |-> x.vertical_alignment, shaping |-> x.shaping]

\* Text<(), Font>: the projection update hands to compare, content elided
Projection(t) ==
    [bounds |-> t.bounds, size |-> t.size, line_height |-> t.line_height,
     font |-> t.font, horizontal_alignment |-> t.horizontal_alignment,
     vertical_alignment |-> t.vertical_alignment, shaping |-> t.shaping]

----------------------------------------------------------------------------
(* The backend paragraph P: Paragraph, modelled from the contract. *)

\* Smallest box fitting the text wrapped at the bounds' width: one glyph
\* advances by the font size, a line is size * line_height high.  A box of
\* zero width shows no line.
Measure(c, size, line_height, bounds) ==
    LET natural == Len(c) * size
        perLine == bounds.width \div size
    IN  IF natural = 0 \/ perLine = 0
        THEN SizeZERO
        ELSE IF natural <= bounds.width
             THEN Size(natural, size * line_height)
             ELSE Size(perLine * size,
                       ((Len(c) + perLine - 1) \div perLine) * size * line_height)

\* Paragraph::with_text: shape and lay out the text within its bounds
with_text(t) ==
    [content |-> t.content, bounds |-> t.bounds, size |-> t.size,
     line_height |-> t.line_height, font |-> t.font,
     horizontal_alignment |-> t.horizontal_alignment,
     vertical_alignment |-> t.vertical_alignment, shaping |-> t.shaping,
     min_bounds |-> Measure(t.content, t.size, t.line_height, t.bounds)]

\* Paragraph::default: the empty paragraph, zero bounds
DefaultParagraph ==
    with_text([content |-> "", bounds |-> SizeZERO, size |-> BaseStyling.size,
               line_height |-> BaseStyling.line_height,
               font |-> BaseStyling.font,
               horizontal_alignment |-> BaseStyling.horizontal_alignment,
               vertical_alignment |-> BaseStyling.vertical_alignment,
               shaping |-> BaseStyling.shaping])

\* Paragraph::resize: re-wrap in place within new bounds; content and
\* styling are kept
resize(p, new_bounds) ==
    [p EXCEPT !.bounds = new_bounds,
              !.min_bounds = Measure(p.content, p.size, p.line_height, new_bounds)]

\* compare with its last branch wrong: equal parameters classed as Bounds
compare_never_none(p, t) ==
    IF \/ p.size # t.size
       \/ p.line_height # t.line_height
       \/ p.font # t.font
       \/ p.shaping # t.shaping
       \/ p.horizontal_alignment # t.horizontal_alignment
       \/ p.vertical_alignment # t.vertical_alignment
    THEN "Shape"
    ELSE "Bounds"

\* Paragraph::compare: the paragraph's build parameters against a
\* content-less request
compare(p, t) ==
    IF \/ p.size # t.size
       \/ p.line_height # t.line_height
       \/ p.font # t.font
       \/ p.shaping # t.shaping
       \/ p.horizontal_alignment # t.horizontal_alignment
       \/ p.vertical_alignment # t.vertical_alignment
    THEN "Shape"
    ELSE IF p.bounds # t.bounds
         THEN "Bounds"
         ELSE "None"

\* Paragraph::horizontal_alignment: the alignment the paragraph was built with
horizontal_alignment(p) == p.horizontal_alignment

\* Paragraph::vertical_alignment
vertical_alignment(p) == p.vertical_alignment

\* Paragraph::min_bounds
min_bounds(p) == p.min_bounds

\* Paragraph::min_width (provided method)
min_width(p) == min_bounds(p).width

----------------------------------------------------------------------------
(* Plain<P>. *)

\* Plain::default (derived): P::default() and an empty String
PlainDefault == [raw |-> DefaultParagraph, content |-> ""]

\* Plain::new
new(t) == [raw |-> with_text(t), content |-> t.content]

\* update with the checks in the wrong order: compare first, so that a
\* change of bounds is resized even when the content changed too
update_compare_first(self, t) ==
    LET d == compare(self.raw, Projection(t))
    IN  IF d = "Bounds"
        THEN [raw |-> resize(self.raw, t.bounds), content |-> self.content,
              calls |-> <<"compare", "resize">>, difference |-> d]
        ELSE IF self.content # t.content
        THEN [raw |-> with_text(t), content |-> t.content,
              calls |-> <<"compare", "with_text">>, difference |-> d]
        ELSE IF d = "None"
        THEN [raw |-> self.raw, content |-> self.content,
              calls |-> <<"compare">>, difference |-> d]
        ELSE [raw |-> with_text(t), content |-> self.content,
              calls |-> <<"compare", "with_text">>, difference |-> d]

\* update without the resize tier: a change of bounds is rebuilt in full
update_always_rebuilds(self, t) ==
    IF self.content # t.content
    THEN [raw |-> with_text(t), content |-> t.content,
          calls |-> <<"with_text">>, difference |-> "NotCompared"]
    ELSE LET d == compare(self.raw, Projection(t))
         IN  IF d = "None"
             THEN [raw |-> self.raw, content |-> self.content,
                   calls |-> <<"compare">>, difference |-> d]
             ELSE [raw |-> with_text(t), content |-> self.content,
                   calls |-> <<"compare", "with_text">>, difference |-> d]

\* update with an empty Bounds arm: a change of bounds is left unapplied
update_skips_resize(self, t) ==
    IF self.content # t.content
    THEN [raw |-> with_text(t), content |-> t.content,
          calls |-> <<"with_text">>, difference |-> "NotCompared"]
    ELSE LET d == compare(self.raw, Projection(t))
         IN  IF d = "Shape"
             THEN [raw |-> with_text(t), content |-> self.content,
                   calls |-> <<"compare", "with_text">>, difference |-> d]
             ELSE [raw |-> self.raw, content |-> self.content,
                   calls |-> <<"compare">>, difference |-> d]

\* update without the clone_into: the paragraph is rebuilt from the new
\* content, the stored content keeps the old one
update_keeps_stale_content(self, t) ==
    IF self.content # t.content
    THEN [raw |-> with_text(t), content |-> self.content,
          calls |-> <<"with_text">>, difference |-> "NotCompared"]
    ELSE LET d == compare(self.raw, Projection(t))
         IN  CASE d = "None" ->
                    [raw |-> self.raw, content |-> self.content,
                     calls |-> <<"compare">>, difference |-> d]
               [] d = "Bounds" ->
                    [raw |-> resize(self.raw, t.bounds), content |-> self.content,
                     calls |-> <<"compare", "resize">>, difference |-> d]
               [] d = "Shape" ->
                    [raw |-> with_text(t), content |-> self.content,
                     calls |-> <<"compare", "with_text">>, difference |-> d]

\* update with the Shape arm resizing instead of rebuilding
update_resizes_on_shape(self, t) ==
    IF self.content # t.content
    THEN [raw |-> with_text(t), content |-> t.content,
          calls |-> <<"with_text">>, difference |-> "NotCompared"]
    ELSE LET d == compare(self.raw, Projection(t))
         IN  IF d = "None"
             THEN [raw |-> self.raw, content |-> self.content,
                   calls |-> <<"compare">>, difference |-> d]
             ELSE [raw |-> resize(self.raw, t.bounds), content |-> self.content,
                   calls |-> <<"compare", "resize">>, difference |-> d]

\* update with no None arm: an unchanged request is rebuilt all the same
update_rebuilds_unchanged(self, t) ==
    IF self.content # t.content
    THEN [raw |-> with_text(t), content |-> t.content,
          calls |-> <<"with_text">>, difference |-> "NotCompared"]
    ELSE LET d == compare(self.raw, Projection(t))
         IN  IF d = "Bounds"
             THEN [raw |-> resize(self.raw, t.bounds), content |-> self.content,
                   calls |-> <<"compare", "resize">>, difference |-> d]
             ELSE [raw |-> with_text(t), content |-> self.content,
                   calls |-> <<"compare", "with_text">>, difference |-> d]

\* update with the Bounds arm falling through into the Shape arm: the
\* paragraph is resized and then rebuilt
update_resize_then_rebuild(self, t) ==
    IF self.content # t.content
    THEN [raw |-> with_text(t), content |-> t.content,
          calls |-> <<"with_text">>, difference |-> "NotCompared"]
    ELSE LET d == compare(self.raw, Projection(t))
         IN  CASE d = "None" ->
                    [raw |-> self.raw, content |-> self.content,
                     calls |-> <<"compare">>, difference |-> d]
               [] d = "Bounds" ->
                    [raw |-> with_text(t), content |-> self.content,
                     calls |-> <<"compare", "resize", "with_text">>,
                     difference |-> d]
               [] d = "Shape" ->
                    [raw |-> with_text(t), content |-> self.content,
                     calls |-> <<"compare", "with_text">>, difference |-> d]

\* Plain::update.  The result carries, beside the new raw and content, the
\* backend operations invoked and the Difference compare returned.
update(self, t) ==
    IF self.content # t.content
    THEN [raw |-> with_text(t), content |-> t.content,
          calls |-> <<"with_text">>, difference |-> "NotCompared"]
    ELSE LET d == compare(self.raw, Projection(t))
         IN  CASE d = "None" ->
                    [raw |-> self.raw, content |-> self.content,
                     calls |-> <<"compare">>, difference |-> d]
               [] d = "Bounds" ->
                    [raw |-> resize(self.raw, t.bounds), content |-> self.content,
                     calls |-> <<"compare", "resize">>, difference |-> d]
               [] d = "Shape" ->
                    [raw |-> with_text(t), content |-> self.content,
                     calls |-> <<"compare", "with_text">>, difference |-> d]

\* Plain::horizontal_alignment
plain_horizontal_alignment(self) == horizontal_alignment(self.raw)

\* Plain::vertical_alignment
plain_vertical_alignment(self) == vertical_alignment(self.raw)

\* Plain::min_bounds
plain_min_bounds(self) == min_bounds(self.raw)

\* Plain::min_width
plain_min_width(self) == min_width(self.raw)

\* Plain::raw
plain_raw(self) == self.raw

\* the read-only accessors of Plain
Accessors ==
    {"horizontal_alignment", "vertical_alignment", "min_bounds", "min_width",
     "raw"}

\* an accessor that moves the paragraph out of the wrapper (as mem::take
\* would), leaving a default one behind
access_takes_raw(self, a) ==
    [self |-> IF a = "raw" THEN [self EXCEPT !.raw = DefaultParagraph] ELSE self,
     value |-> CASE a = "horizontal_alignment" -> plain_horizontal_alignment(self)
                 [] a = "vertical_alignment" -> plain_vertical_alignment(self)
                 [] a = "min_bounds" -> plain_min_bounds(self)
                 [] a = "min_width" -> plain_min_width(self)
                 [] a = "raw" -> plain_raw(self)]

\* a call of accessor a on &self: the wrapper after the call, and the value
\* returned
access(self, a) ==
    [self |-> self,
     value |-> CASE a = "horizontal_alignment" -> plain_horizontal_alignment(self)
                 [] a = "vertical_alignment" -> plain_vertical_alignment(self)
                 [] a = "min_bounds" -> plain_min_bounds(self)
                 [] a = "min_width" -> plain_min_width(self)
                 [] a = "raw" -> plain_raw(self)]

\* the wrapper as it stands: the Plain { raw, content } struct
plain == [raw |-> raw, content |-> content]

\* the record of an operation: how previous remembers the one before the last
Operation(o, t, c, d) == [op |-> o, text |-> t, calls |-> c, difference |-> d]

NoOperation == Operation("none", <<>>, <<>>, "NotCompared")

\* The scenario: a wrapper built with "Hello" in 100x20 is updated to
\* 200x20, then to "World", then with the same request again.
ScenarioBuilt(t) == t.content = "Hello" /\ t.bounds = Size(100, 20)

\* the number of scenario steps run once update(t) follows the request last
ScenarioNext(n, last, t) ==
    CASE n = 1 /\ t = [last EXCEPT !.bounds = Size(200, 20)] -> 2
      [] n = 2 /\ t = [last EXCEPT !.content = "World"] -> 3
      [] n = 3 /\ t = last -> 4
      [] OTHER -> 0

InitPlain ==
    /\ \/ /\ op = "default"
          /\ raw = PlainDefault.raw
          /\ content = PlainDefault.content
          /\ text = <<>>
          /\ calls = <<>>
          /\ scenario = 0
       \/ \E t \in Text :
             /\ op = "new"
             /\ raw = new(t).raw
             /\ content = new(t).content
             /\ text = <<t>>
             /\ calls = <<"with_text">>
             /\ scenario = IF ScenarioBuilt(t) THEN 1 ELSE 0
    /\ difference = "NotCompared"
    /\ before = <<>>
    /\ previous = NoOperation
    /\ returned = <<>>

Update(t) ==
    \E r \in {update(plain, t)} :
        /\ raw' = r.raw
        /\ content' = r.content
        /\ calls' = r.calls
        /\ difference' = r.difference
        /\ text' = <<t>>
        /\ op' = "update"
        /\ before' = <<plain>>
        /\ previous' = Operation(op, text, calls, difference)
        /\ scenario' = IF scenario = 0 THEN 0
                       ELSE ScenarioNext(scenario, text[1], t)
        /\ returned' = <<>>
        /\ UNCHANGED redrawVars

\* a read-only accessor is called between updates
Access(a) ==
    \E r \in {access(plain, a)} :
        /\ raw' = r.self.raw
        /\ content' = r.self.content
        /\ returned' = <<[accessor |-> a, value |-> r.value, self |-> plain]>>
        /\ UNCHANGED <<text, calls, difference, op, before, previous, scenario>>
        /\ UNCHANGED redrawVars

----------------------------------------------------------------------------
(* RedrawRequest: #[derive(PartialEq, Eq, PartialOrd, Ord)] enum. *)

Instants == 0..MaxInstant

NextFrame == [variant |-> "NextFrame", instant |-> 0]

At(i) == [variant |-> "At", instant |-> i]

RedrawRequest == {NextFrame} \cup {At(i) : i \in Instants}

\* the discriminants with the variants declared in the other order
discriminant_swapped(r) == IF r.variant = "NextFrame" THEN 1 ELSE 0

\* the discriminant of a variant: its position in the enum's declaration
discriminant(r) == IF r.variant = "NextFrame" THEN 0 ELSE 1

\* Instant's Ord::cmp: the monotonic clock's order
instant_cmp(i, j) ==
    IF i < j THEN "Less" ELSE IF i > j THEN "Greater" ELSE "Equal"

\* cmp by the variant alone, the instant of At ignored
cmp_discriminant_only(a, b) ==
    IF discriminant(a) < discriminant(b) THEN "Less"
    ELSE IF discriminant(a) > discriminant(b) THEN "Greater"
    ELSE "Equal"

\* derived Ord::cmp: by discriminant first, then by the variant's field
cmp(a, b) ==
    IF discriminant(a) < discriminant(b) THEN "Less"
    ELSE IF discriminant(a) > discriminant(b) THEN "Greater"
    ELSE IF a.variant = "At" THEN instant_cmp(a.instant, b.instant)
    ELSE "Equal"

\* eq by the variant alone, the instant of At ignored
eq_variant_only(a, b) == discriminant(a) = discriminant(b)

\* derived PartialEq::eq: same variant and, for At, the same instant
eq(a, b) ==
    /\ discriminant(a) = discriminant(b)
    /\ (a.variant = "At" => a.instant = b.instant)

\* PartialOrd's operators, as derived from cmp
lt(a, b) == cmp(a, b) = "Less"

le(a, b) == cmp(a, b) \in {"Less", "Equal"}

gt(a, b) == cmp(a, b) = "Greater"

ge(a, b) == cmp(a, b) \in {"Greater", "Equal"}

\* min with the branches exchanged: the later of the two
min_takes_greater(a, b) == IF cmp(a, b) = "Greater" THEN a ELSE b

\* min that never looks at its second operand
min_keeps_first(a, b) == a

\* Ord::min: the first operand unless the second is strictly less
min(a, b) == IF cmp(a, b) = "Greater" THEN b ELSE a

\* the merged minimum of a non-empty sequence of requests: a left fold of min
RECURSIVE merge(_)
merge(s) ==
    IF Len(s) = 1 THEN s[1]
    ELSE min(merge(SubSeq(s, 1, Len(s) - 1)), s[Len(s)])

----------------------------------------------------------------------------
(* Initial states and actions. *)

InitRedrawIdle ==
    /\ pending = <<>>
    /\ merged = <<>>
    /\ lhs = <<>>
    /\ rhs = <<>>
    /\ ordering = "NotCompared"
    /\ equal = FALSE

InitPlainIdle ==
    /\ op = "default"
    /\ raw = PlainDefault.raw
    /\ content = PlainDefault.content
    /\ text = <<>>
    /\ calls = <<>>
    /\ scenario = 0
    /\ difference = "NotCompared"
    /\ before = <<>>
    /\ previous = NoOperation
    /\ returned = <<>>

\* a caller signals a need to repaint
Request(r) ==
    /\ Len(pending) < MaxPending
    /\ pending' = Append(pending, r)
    /\ merged' = <<>>
    /\ UNCHANGED <<lhs, rhs, ordering, equal>>
    /\ UNCHANGED plainVars

\* the scheduler merges the pending requests into the most urgent one
Merge ==
    /\ pending # <<>>
    /\ merged' = <<merge(pending)>>
    /\ UNCHANGED <<pending, lhs, rhs, ordering, equal>>
    /\ UNCHANGED plainVars

\* two requests are compared (==, <, <=, >, >=)
Compare(a, b) ==
    /\ lhs' = <<a>>
    /\ rhs' = <<b>>
    /\ ordering' = cmp(a, b)
    /\ equal' = eq(a, b)
    /\ UNCHANGED <<pending, merged>>
    /\ UNCHANGED plainVars

Init == InitPlain /\ InitRedrawIdle

Next == \E t \in Text : Update(t)

Spec == Init /\ [][Next]_vars

InitRedraw == InitPlainIdle /\ InitRedrawIdle

NextRedraw ==
    \/ \E r \in RedrawRequest : Request(r)
    \/ Merge
    \/ \E a, b \in RedrawRequest : Compare(a, b)

SpecRedraw == InitRedraw /\ [][NextRedraw]_vars

\* the requests of the updates interleaved with accessor calls: those of
\* the base styling and of the styling that differs from it in every field
AccessText ==
    {t \in Text : Cardinality(Changed(StylingOf(t), BaseStyling)) # 1}

NextAccess ==
    \/ \E t \in AccessText : Update(t)
    \/ \E a \in Accessors : Access(a)

SpecAccess == Init /\ [][NextAccess]_vars

----------------------------------------------------------------------------
(* Properties of Plain::update, checked under Spec. *)

\* the backend operations of the last call, as a set
Invoked == {calls[i] : i \in 1..Len(calls)}

\* C1: an update whose content differs from the stored content stores the
\* request's content and replaces the paragraph by with_text of the request;
\* it invokes with_text only, never resize, also when only the bounds differ
\* beside the content.
C1_ContentChangeRebuilds ==
    (op = "update" /\ before[1].content # text[1].content) =>
        /\ content = text[1].content
        /\ raw = with_text(text[1])
        /\ calls = <<"with_text">>

C1_Witness ==
    /\ op = "update"
    /\ before[1].content # text[1].content
    /\ StylingOf(before[1].raw) = StylingOf(text[1])
    /\ before[1].raw.bounds # text[1].bounds
    /\ calls = <<"with_text">>

\* C2: an update whose content equals the stored content and whose styling
\* fields all match the cached paragraph, with different bounds, invokes
\* compare and then only resize(request.bounds) on the existing paragraph,
\* never with_text; the stored content is unchanged.
C2_BoundsOnlyResizes ==
    (/\ op = "update"
     /\ before[1].content = text[1].content
     /\ StylingOf(before[1].raw) = StylingOf(text[1])
     /\ before[1].raw.bounds # text[1].bounds) =>
        /\ calls = <<"compare", "resize">>
        /\ raw = resize(before[1].raw, text[1].bounds)
        /\ content = before[1].content

C2_Witness ==
    /\ op = "update"
    /\ before[1].content = text[1].content
    /\ before[1].content # ""
    /\ StylingOf(before[1].raw) = StylingOf(text[1])
    /\ before[1].raw.bounds # text[1].bounds
    /\ calls = <<"compare", "resize">>
    /\ raw.min_bounds # before[1].raw.min_bounds

\* C3: an update with the request of the update just before it compares as
\* Difference::None, invokes neither resize nor with_text, and leaves the
\* content and the paragraph as the first call left them, whichever path the
\* first call took.
C3_UpdateIdempotent ==
    (op = "update" /\ previous.op = "update" /\ previous.text = text) =>
        /\ difference = "None"
        /\ calls = <<"compare">>
        /\ raw = before[1].raw
        /\ content = before[1].content

C3_Witness ==
    /\ op = "update"
    /\ previous.op = "update"
    /\ previous.text = text
    /\ previous.calls = <<"compare", "resize">>
    /\ calls = <<"compare">>
    /\ raw = before[1].raw

\* C4: between calls, the text the owned paragraph was built from equals
\* the stored content, from Plain::new or Plain::default on.
C4_CacheConsistent == raw.content = content

C4_Witness ==
    /\ op = "update"
    /\ previous.op = "update"
    /\ before[1].content # content
    /\ before[1].content # ""
    /\ raw.content = content

C6_ShapeDominatesBounds ==
    (op = "update" /\ "compare" \in Invoked) =>
        /\ difference = "Bounds" <=>
              (/\ before[1].raw.bounds # text[1].bounds
               /\ StylingOf(before[1].raw) = StylingOf(text[1]))
        /\ StylingOf(before[1].raw) # StylingOf(text[1]) => difference = "Shape"
        /\ (/\ StylingOf(before[1].raw) # StylingOf(text[1])
            /\ before[1].raw.bounds # text[1].bounds) =>
              /\ calls = <<"compare", "with_text">>
              /\ raw = with_text(text[1])

C6_Witness ==
    /\ op = "update"
    /\ before[1].content = text[1].content
    /\ StylingOf(before[1].raw) # StylingOf(text[1])
    /\ before[1].raw.bounds # text[1].bounds
    /\ difference = "Shape"
    /\ calls = <<"compare", "with_text">>

\* C7: resize is invoked only inside an update whose content equals the
\* stored content and whose compare returned Bounds; it is never invoked
\* when the content or a styling field of the request differs from the
\* cached paragraph.
C7_ResizeGuarded ==
    "resize" \in Invoked =>
        /\ op = "update"
        /\ before[1].content = text[1].content
        /\ difference = "Bounds"
        /\ StylingOf(before[1].raw) = StylingOf(text[1])
        /\ before[1].raw.content = text[1].content

C7_Witness ==
    /\ "resize" \in Invoked
    /\ op = "update"
    /\ difference = "Bounds"
    /\ before[1].content = text[1].content

----------------------------------------------------------------------------
(* Properties of RedrawRequest's order, checked under SpecRedraw. *)

\* the instants of the pending At requests
PendingInstants ==
    {pending[i].instant : i \in {j \in 1..Len(pending) : pending[j].variant = "At"}}

\* C8: NextFrame is strictly less than At(t), and At(t) strictly greater
\* than NextFrame, for every instant t, the earliest included.
C8_NextFrameFirst ==
    ordering # "NotCompared" =>
        /\ (lhs[1].variant = "NextFrame" /\ rhs[1].variant = "At") =>
              (ordering = "Less" /\ ~equal)
        /\ (lhs[1].variant = "At" /\ rhs[1].variant = "NextFrame") =>
              (ordering = "Greater" /\ ~equal)

C8_Witness ==
    /\ lhs = <<NextFrame>>
    /\ rhs = <<At(0)>>
    /\ ordering = "Less"

\* C9: At(T1) < At(T2) exactly when T1 < T2, and At(T1) == At(T2) exactly
\* when T1 = T2.
C9_AtFollowsInstant ==
    (/\ ordering # "NotCompared"
     /\ lhs[1].variant = "At"
     /\ rhs[1].variant = "At") =>
        /\ ordering = "Less" <=> lhs[1].instant < rhs[1].instant
        /\ ordering = "Greater" <=> lhs[1].instant > rhs[1].instant
        /\ equal <=> lhs[1].instant = rhs[1].instant
        /\ equal <=> ordering = "Equal"

C9_Witness ==
    /\ lhs = <<At(1)>>
    /\ rhs = <<At(2)>>
    /\ ordering = "Less"
    /\ ~equal

\* C10: the minimum of a non-empty collection of requests holding a
\* NextFrame is NextFrame; the minimum of a collection of At requests only
\* is the At of the earliest instant among them.
C10_MergedMinimum ==
    merged # <<>> =>
        /\ (\E i \in 1..Len(pending) : pending[i] = NextFrame) =>
              merged[1] = NextFrame
        /\ (\A i \in 1..Len(pending) : pending[i].variant = "At") =>
              /\ merged[1].variant = "At"
              /\ merged[1].instant \in PendingInstants
              /\ \A k \in PendingInstants : merged[1].instant <= k

C10_Witness ==
    /\ Len(pending) = 2
    /\ pending[1].variant = "At"
    /\ pending[2].variant = "At"
    /\ pending[2].instant < pending[1].instant
    /\ merged = <<pending[2]>>

\* C11: the order on RedrawRequest is a strict total order: of a < b,
\* a == b, a > b exactly one holds; < is irreflexive and transitive; a <= b
\* holds exactly when a < b or a == b; a > b exactly when b < a; and == is
\* structural (same variant and, for At, the same instant).
C11_StrictTotalOrder ==
    /\ ordering # "NotCompared" =>
          /\ \/ (ordering = "Less" /\ ~equal /\ ordering # "Greater")
             \/ (ordering # "Less" /\ equal /\ ordering # "Greater")
             \/ (ordering # "Less" /\ ~equal /\ ordering = "Greater")
          /\ le(lhs[1], rhs[1]) <=> (ordering = "Less" \/ equal)
          /\ ge(lhs[1], rhs[1]) <=> (ordering = "Greater" \/ equal)
          /\ gt(lhs[1], rhs[1]) <=> lt(rhs[1], lhs[1])
          /\ equal <=> (/\ lhs[1].variant = rhs[1].variant
                        /\ lhs[1].variant = "At" => lhs[1].instant = rhs[1].instant)
          /\ lhs[1].variant # rhs[1].variant => ~equal
    /\ \A i \in 1..Len(pending) : ~lt(pending[i], pending[i])
    /\ \A i, j, k \in 1..Len(pending) :
          (lt(pending[i], pending[j]) /\ lt(pending[j], pending[k])) =>
              lt(pending[i], pending[k])

C11_Witness ==
    /\ pending = <<NextFrame, At(1), At(2)>>
    /\ lhs = <<At(2)>>
    /\ rhs = <<At(2)>>
    /\ ordering = "Equal"
    /\ equal

\* the rearrangements of a sequence: the orders a collection can be folded in
Rearrangements(s) ==
    {[i \in 1..Len(s) |-> s[p[i]]] :
        p \in {f \in [1..Len(s) -> 1..Len(s)] :
                  \A i, j \in 1..Len(s) : f[i] = f[j] => i = j}}

\* the fold of min grouped from the right: min(s1, min(s2, ...))
RECURSIVE merge_from_right(_)
merge_from_right(s) ==
    IF Len(s) = 1 THEN s[1]
    ELSE min(s[1], merge_from_right(SubSeq(s, 2, Len(s))))

\* C16: min is associative, commutative and idempotent; folding min over
\* the pending requests in any order or grouping yields the same value,
\* which is one of them and is less than or equal to each of them.
C16_MinFoldWellDefined ==
    /\ \A i, j, k \in 1..Len(pending) :
          /\ min(min(pending[i], pending[j]), pending[k]) =
                min(pending[i], min(pending[j], pending[k]))
          /\ min(pending[i], pending[j]) = min(pending[j], pending[i])
          /\ min(pending[i], pending[i]) = pending[i]
    /\ merged # <<>> =>
          /\ \E i \in 1..Len(pending) : merged[1] = pending[i]
          /\ \A i \in 1..Len(pending) : le(merged[1], pending[i])
          /\ \A q \in Rearrangements(pending) :
                /\ merge(q) = merged[1]
                /\ merge_from_right(q) = merged[1]

C16_Witness ==
    /\ pending = <<At(2), NextFrame, At(1)>>
    /\ merged = <<NextFrame>>

----------------------------------------------------------------------------
(* Further properties of Plain::update, checked under Spec. *)

\* C13: an update whose content equals the stored content and whose compare
\* returns Shape replaces the paragraph by with_text of the full request,
\* does not resize, and leaves the stored content unchanged.
C13_ShapeRebuilds ==
    (op = "update" /\ before[1].content = text[1].content
                   /\ difference = "Shape") =>
        /\ calls = <<"compare", "with_text">>
        /\ raw = with_text(text[1])
        /\ raw.bounds = text[1].bounds
        /\ StylingOf(raw) = StylingOf(text[1])
        /\ content = before[1].content

C13_Witness ==
    /\ op = "update"
    /\ before[1].content = text[1].content
    /\ before[1].content # ""
    /\ difference = "Shape"
    /\ before[1].raw.bounds = text[1].bounds
    /\ raw # before[1].raw
    /\ calls = <<"compare", "with_text">>

\* C14: an update whose content equals the stored content and whose compare
\* returns None changes nothing: paragraph and content stay as they were,
\* and neither resize nor with_text is invoked.
C14_UnchangedIsNoOp ==
    (op = "update" /\ before[1].content = text[1].content
                   /\ difference = "None") =>
        /\ raw = before[1].raw
        /\ content = before[1].content
        /\ "resize" \notin Invoked
        /\ "with_text" \notin Invoked

C14_Witness ==
    /\ op = "update"
    /\ before[1].content = text[1].content
    /\ before[1].content # ""
    /\ difference = "None"
    /\ previous.op = "new"
    /\ calls = <<"compare">>
    /\ raw = before[1].raw

\* C15: update compares the content first: compare is invoked exactly when
\* the request's content equals the stored content, and then first; when
\* the content differs the paragraph is rebuilt with no compare; and the
\* stored content changes on the content-differs path only.
C15_ContentCheckedFirst ==
    op = "update" =>
        /\ "compare" \in Invoked <=> before[1].content = text[1].content
        /\ "compare" \in Invoked => calls[1] = "compare"
        /\ before[1].content # text[1].content =>
              (difference = "NotCompared" /\ "with_text" \in Invoked)
        /\ content # before[1].content =>
              (before[1].content # text[1].content /\ "compare" \notin Invoked)

C15_Witness ==
    /\ op = "update"
    /\ before[1].content # text[1].content
    /\ content # before[1].content
    /\ Projection(text[1]) # Projection(before[1].raw)
    /\ "compare" \notin Invoked

\* C17: after any sequence of updates ending in update(r), the wrapper is
\* the one Plain::new(r) gives: its content is r's, and the paragraph's
\* bounds, styling and layout are those of a paragraph built from r,
\* whichever path the update took.
C17_UpdateEqualsNew ==
    op = "update" =>
        /\ content = text[1].content
        /\ raw.bounds = text[1].bounds
        /\ StylingOf(raw) = StylingOf(text[1])
        /\ plain = new(text[1])

C17_Witness ==
    /\ op = "update"
    /\ previous.op = "update"
    /\ calls = <<"compare", "resize">>
    /\ content # ""
    /\ plain = new(text[1])

\* C18: one update performs at most one mutating backend operation (one
\* with_text, or one resize, or none), invokes compare at most once, and
\* never both resizes and rebuilds.
C18_OneCorrectiveAction ==
    op = "update" =>
        /\ Cardinality({i \in 1..Len(calls) :
                           calls[i] \in {"resize", "with_text"}}) <= 1
        /\ Cardinality({i \in 1..Len(calls) : calls[i] = "compare"}) <= 1
        /\ ~("resize" \in Invoked /\ "with_text" \in Invoked)

C18_Witness ==
    /\ op = "update"
    /\ previous.op = "update"
    /\ previous.calls = <<"compare", "with_text">>
    /\ calls = <<"compare", "resize">>

\* C12: from a wrapper built with "Hello" in 100x20, update("Hello",
\* 200x20, same styling) resizes; the next update("World", same bounds and
\* styling) rebuilds in full and the stored content becomes "World"; the
\* next update, identical, does nothing.  The three happen in that order
\* and no other backend mutation occurs.
C12_ScenarioTrace ==
    /\ scenario = 2 =>
          /\ previous.op = "new"
          /\ calls = <<"compare", "resize">>
          /\ content = "Hello"
          /\ raw.bounds = Size(200, 20)
    /\ scenario = 3 =>
          /\ previous.calls = <<"compare", "resize">>
          /\ calls = <<"with_text">>
          /\ content = "World"
          /\ raw.content = "World"
    /\ scenario = 4 =>
          /\ previous.calls = <<"with_text">>
          /\ calls = <<"compare">>
          /\ difference = "None"
          /\ content = "World"
          /\ raw = before[1].raw

C12_Witness ==
    /\ scenario = 4
    /\ calls = <<"compare">>
    /\ content = "World"
    /\ raw.bounds = Size(200, 20)

----------------------------------------------------------------------------
(* Properties of Plain's accessors, checked under SpecAccess. *)

\* C19: horizontal_alignment, vertical_alignment, min_bounds, min_width and
\* raw return what the owned paragraph reports and leave the paragraph and
\* the stored content unchanged, in every reachable state, however they are
\* interleaved with updates.
C19_AccessorsReadOnly ==
    returned # <<>> =>
        /\ raw = returned[1].self.raw
        /\ content = returned[1].self.content
        /\ returned[1].accessor = "horizontal_alignment" =>
              returned[1].value = raw.horizontal_alignment
        /\ returned[1].accessor = "vertical_alignment" =>
              returned[1].value = raw.vertical_alignment
        /\ returned[1].accessor = "min_bounds" =>
              returned[1].value = raw.min_bounds
        /\ returned[1].accessor = "min_width" =>
              returned[1].value = raw.min_bounds.width
        /\ returned[1].accessor = "raw" => returned[1].value = raw

C19_Witness ==
    /\ returned # <<>>
    /\ returned[1].accessor = "raw"
    /\ returned[1].value = raw
    /\ op = "update"
    /\ previous.op = "update"
    /\ calls = <<"compare", "resize">>
    /\ raw.min_bounds.width > 0

====
